---- MODULE Spec2Model ----
(***************************************************************************)
(* watchexec: the path filter (lib/src/filter/globset.rs), the debounce    *)
(* loop wait() and the watch loop of main() (src/main.rs), and the command *)
(* runner that main() drives.                                              *)
(*                                                                         *)
(* Strings (patterns, paths, extensions) are sequences of one-character    *)
(* strings, so that globbing, negation, directory-only patterns and        *)
(* Path::extension are computed rather than assumed.                       *)
(***************************************************************************)
EXTENDS Integers, Sequences, FiniteSets, TLC

\* ------------------------------------------------------------------------
\* Bounds of the model
\* ------------------------------------------------------------------------
MaxRules == 2      \* most filter and ignore rules, together, drawn for FilterSpec
MaxPaths == 2      \* most paths carried by one event in FilterSpec
MaxEvents == 4     \* raw events the watcher pushes in one behaviour of Spec
MaxLiveEvents == 3 \* raw events the watcher pushes in one behaviour of LiveSpec

\* ------------------------------------------------------------------------
\* Program constants
\* ------------------------------------------------------------------------
Window == 250      \* ms wait() sleeps after the first accepted event
TickMs == Window \div 2     \* granularity of the modelled time

\* ------------------------------------------------------------------------
\* Strings used by the model
\* ------------------------------------------------------------------------
S_a == <<"a">>
S_a_js == <<"a", ".", "j", "s">>
S_a_JS == <<"a", ".", "J", "S">>
S_a_pyc == <<"a", ".", "p", "y", "c">>
S_dotgit_a_js == <<".", "g", "/", "a", ".", "j", "s">>
S_d == <<"d">>

L_star_pyc == <<"*", ".", "p", "y", "c">>
L_star_swp == <<"*", ".", "s", "w", "p">>
L_dotted_dirs == <<".", "*", "/", "*">>
L_star_js == <<"*", ".", "j", "s">>
L_not_a_js == <<"!", "a", ".", "j", "s">>
L_not_a_pyc == <<"!", "a", ".", "p", "y", "c">>
L_d_dir == <<"d", "/">>
L_a_star == <<"a", "*">>

E_js == <<"j", "s">>
E_css == <<"c", "s", "s">>

\* ------------------------------------------------------------------------
\* Sequence helpers
\* ------------------------------------------------------------------------
RECURSIVE SeqsUpTo(_, _)
SeqsUpTo(S, n) ==
    IF n = 0 THEN {<<>>}
    ELSE LET shorter == SeqsUpTo(S, n - 1)
         IN  shorter \cup {Append(q, x) : q \in shorter, x \in S}

Contains(s, c) == \E i \in 1..Len(s) : s[i] = c

LastIndexOf(s, c) ==
    IF Contains(s, c)
    THEN CHOOSE i \in 1..Len(s) : s[i] = c /\ \A j \in (i + 1)..Len(s) : s[j] # c
    ELSE 0

\* ------------------------------------------------------------------------
\* Gitignore matcher, as GlobsetFilterer uses it (ignore::gitignore)
\* ------------------------------------------------------------------------

\* GitignoreBuilder::add_line: a blank line or a comment adds no glob; a
\* leading `!` makes the glob a whitelist (negated) glob; a trailing `/`
\* makes it match directories only; a glob without `/` matches at any depth.
add_line(line) ==
    IF line = <<>> \/ Head(line) = "#" THEN <<>>
    ELSE LET neg == Head(line) = "!"
             l1 == IF neg THEN Tail(line) ELSE line
             dirOnly == l1 # <<>> /\ l1[Len(l1)] = "/"
             l2 == IF dirOnly THEN SubSeq(l1, 1, Len(l1) - 1) ELSE l1
         IN  IF l2 = <<>> THEN <<>>
             ELSE << [glob |-> l2, is_whitelist |-> neg, is_only_dir |-> dirOnly,
                      any_depth |-> ~Contains(l2, "/")] >>

RECURSIVE build(_)
build(lines) ==
    IF lines = <<>> THEN <<>>
    ELSE add_line(Head(lines)) \o build(Tail(lines))

num_ignores(gi) == Cardinality({i \in 1..Len(gi) : ~gi[i].is_whitelist})

num_whitelists(gi) == Cardinality({i \in 1..Len(gi) : gi[i].is_whitelist})

\* Glob matching with literal separators: `*` matches any run of characters
\* other than `/`.
RECURSIVE GlobMatch(_, _)
GlobMatch(pat, s) ==
    IF pat = <<>> THEN s = <<>>
    ELSE IF Head(pat) = "*"
         THEN GlobMatch(Tail(pat), s)
              \/ (s # <<>> /\ Head(s) # "/" /\ GlobMatch(pat, Tail(s)))
         ELSE s # <<>> /\ Head(s) = Head(pat) /\ GlobMatch(Tail(pat), Tail(s))

\* A glob without a separator is compiled as `**/glob`: it matches the path
\* itself or any suffix of it that follows a `/`.
GlobMatchesPath(g, path) ==
    IF g.any_depth
    THEN \E i \in 1..Len(path) :
            /\ (i = 1 \/ path[i - 1] = "/")
            /\ GlobMatch(g.glob, SubSeq(path, i, Len(path)))
    ELSE GlobMatch(g.glob, path)

\* Gitignore::matched: the last glob that matches the path (and that is not
\* a directory-only glob tried on a non-directory) decides.
matched_first_wins(gi, path, is_dir) ==
    LET hits == {i \in 1..Len(gi) :
                    /\ GlobMatchesPath(gi[i], path)
                    /\ (~gi[i].is_only_dir \/ is_dir)}
    IN  IF hits = {} THEN "None"
        ELSE LET first == CHOOSE i \in hits : \A j \in hits : i <= j
             IN  IF gi[first].is_whitelist THEN "Whitelist" ELSE "Ignore"

matched(gi, path, is_dir) ==
    LET hits == {i \in 1..Len(gi) :
                    /\ GlobMatchesPath(gi[i], path)
                    /\ (~gi[i].is_only_dir \/ is_dir)}
    IN  IF hits = {} THEN "None"
        ELSE LET last == CHOOSE i \in hits : \A j \in hits : j <= i
             IN  IF gi[last].is_whitelist THEN "Whitelist" ELSE "Ignore"

is_ignore(m) == m = "Ignore"

\* Path::extension: the part of the file name after its last `.`, unless
\* the file name has no `.` or only a leading one.
file_name(path) == SubSeq(path, LastIndexOf(path, "/") + 1, Len(path))

HasExtension(path) == LastIndexOf(file_name(path), ".") > 1

extension(path) ==
    LET n == file_name(path)
    IN  SubSeq(n, LastIndexOf(n, ".") + 1, Len(n))

\* ------------------------------------------------------------------------
\* GlobsetFilterer
\* ------------------------------------------------------------------------
GlobsetFilterer_new(filters, ignores, extensions) ==
    [filters |-> build(filters), ignores |-> build(ignores), extensions |-> extensions]

\* file_type.map(|t| t.is_dir()).unwrap_or(false)
IsDir(p) == p.file_type = "dir"

ExtListed(exts, ext) == \E i \in 1..Len(exts) : exts[i] = ext

\* One iteration of the loop of check_event: what the body does with a path.
\* "ignored", "filtered" and "ext_rejected" are the three `return Ok(false)`;
\* "dir_exempt" and "noext_exempt" are the two `continue`; "pass" falls off
\* the end of the body.
check_path_ext_first(f, p) ==
    LET is_dir == IsDir(p)
    IN  IF f.extensions # <<>> /\ is_dir THEN "dir_exempt"
        ELSE IF is_ignore(matched(f.ignores, p.path, is_dir)) THEN "ignored"
        ELSE IF num_ignores(f.filters) > 0 /\ ~is_ignore(matched(f.filters, p.path, is_dir))
             THEN "filtered"
        ELSE IF f.extensions # <<>>
             THEN IF HasExtension(p.path)
                  THEN IF ~ExtListed(f.extensions, extension(p.path))
                       THEN "ext_rejected"
                       ELSE "pass"
                  ELSE "noext_exempt"
        ELSE "pass"

check_path_nonempty_list(f, p) ==
    LET is_dir == IsDir(p)
    IN  IF is_ignore(matched(f.ignores, p.path, is_dir)) THEN "ignored"
        ELSE IF Len(f.filters) > 0 /\ ~is_ignore(matched(f.filters, p.path, is_dir))
             THEN "filtered"
        ELSE IF f.extensions # <<>>
             THEN IF is_dir THEN "dir_exempt"
                  ELSE IF HasExtension(p.path)
                       THEN IF ~ExtListed(f.extensions, extension(p.path))
                            THEN "ext_rejected"
                            ELSE "pass"
                       ELSE "noext_exempt"
        ELSE "pass"

check_path_noext_rejects(f, p) ==
    LET is_dir == IsDir(p)
    IN  IF is_ignore(matched(f.ignores, p.path, is_dir)) THEN "ignored"
        ELSE IF num_ignores(f.filters) > 0 /\ ~is_ignore(matched(f.filters, p.path, is_dir))
             THEN "filtered"
        ELSE IF f.extensions # <<>>
             THEN IF is_dir THEN "dir_exempt"
                  ELSE IF HasExtension(p.path) /\ ExtListed(f.extensions, extension(p.path))
                       THEN "pass"
                       ELSE "ext_rejected"
        ELSE "pass"

check_path(f, p) ==
    LET is_dir == IsDir(p)
    IN  IF is_ignore(matched(f.ignores, p.path, is_dir)) THEN "ignored"
        ELSE IF num_ignores(f.filters) > 0 /\ ~is_ignore(matched(f.filters, p.path, is_dir))
             THEN "filtered"
        ELSE IF f.extensions # <<>>
             THEN IF is_dir THEN "dir_exempt"
                  ELSE IF HasExtension(p.path)
                       THEN IF ~ExtListed(f.extensions, extension(p.path))
                            THEN "ext_rejected"
                            ELSE "pass"
                       ELSE "noext_exempt"
        ELSE "pass"

Rejections == {"ignored", "filtered", "ext_rejected"}

\* The loop of check_event from the i-th path on; the result carries the
\* outcome of every path the loop visited.
Exemptions == {"dir_exempt", "noext_exempt"}

RECURSIVE check_from_exempt_returns(_, _, _, _)
check_from_exempt_returns(f, paths, i, log) ==
    IF i > Len(paths) THEN [ok |-> TRUE, log |-> log]
    ELSE LET o == check_path(f, paths[i])
         IN  IF o \in Rejections
             THEN [ok |-> FALSE, log |-> Append(log, o)]
             ELSE IF o \in Exemptions
                  THEN [ok |-> TRUE, log |-> Append(log, o)]
                  ELSE check_from_exempt_returns(f, paths, i + 1, Append(log, o))

RECURSIVE check_from(_, _, _, _)
check_from(f, paths, i, log) ==
    IF i > Len(paths) THEN [ok |-> TRUE, log |-> log]
    ELSE LET o == check_path(f, paths[i])
         IN  IF o \in Rejections
             THEN [ok |-> FALSE, log |-> Append(log, o)]
             ELSE check_from(f, paths, i + 1, Append(log, o))

check_event(f, paths) == check_from(f, paths, 1, <<>>)

\* ------------------------------------------------------------------------
\* State
\* ------------------------------------------------------------------------
VARIABLES
    cfg,        \* rule lists the filter was built from: filters, ignores, extensions
    filterer,   \* the built GlobsetFilterer
    event,      \* FilterSpec: the paths of the event last checked
    verdict,    \* FilterSpec: NoVerdict, or the result of check_event on `event`
    args,       \* the command-line flags: restart, clear
    runner,     \* the Runner: restart, cls, process (0 = no tracked child)
    alive,      \* ids of the spawned children that have not exited
    chan,       \* events on the channel from the watcher, oldest first
    txOpen,     \* the sending half of the channel still exists
    pc,         \* where the main thread is
    e,          \* wait(): the first accepted event of this call
    nPushed,    \* events pushed by the watcher so far
    trigLog,    \* ids of the events returned by wait(), in order
    runLog,     \* ids of the triggers run_command was called for, in order
    attempts,   \* spawn attempts made by the runner (also the last child id)
    kills,      \* termination requests of the runner: sent, failed
    outcomes,   \* outcome of every run_command that has returned, in order
    hist,       \* history of the pushes: late, rejected, rejIds, inWindow
    clock,      \* the sleep of wait(): ms left to sleep, ms since `e` was received
    marks       \* history of wait(): events pushed by the end of each sleep and of
                \* each drain, and where the main thread was at the disconnect

vars == <<cfg, filterer, event, verdict, args, runner, alive, chan, txOpen, pc, e,
          nPushed, trigLog, runLog, attempts, kills, outcomes, hist, clock, marks>>

filterVars == <<cfg, filterer, event, verdict>>
loopVars == <<args, runner, alive, chan, txOpen, pc, e, nPushed, trigLog, runLog,
              attempts, kills, outcomes, hist, clock, marks>>

NoVerdict == [ok |-> FALSE, log |-> <<"unchecked">>]
NoEvent == [id |-> 0, paths |-> <<>>]

P(s, t) == [path |-> s, file_type |-> t]

\* ------------------------------------------------------------------------
\* Inputs
\* ------------------------------------------------------------------------
FilterLines == {L_a_star, L_not_a_js}
IgnoreLines == {L_star_pyc, L_not_a_pyc, L_d_dir}
ExtLists == {<<>>, <<E_js>>, <<E_css, E_js>>}

FilterPaths ==
    {P(S_a_js, "file"), P(S_a_JS, "file"), P(S_a_pyc, "none"), P(S_a, "file"),
     P(S_d, "dir"), P(S_a_JS, "dir"), P(S_dotgit_a_js, "file")}

\* What the watcher of main() reports: an event has one path or none.
WatchedPaths == {<<>>, <<P(S_a_js, "file")>>, <<P(S_a_pyc, "file")>>}

\* -e, -f and -i options given to main().
UserRules ==
    {[extensions |-> <<>>, filters |-> <<>>, ignores |-> <<>>],
     [extensions |-> <<E_js>>, filters |-> <<L_star_js>>, ignores |-> <<L_d_dir>>],
     [extensions |-> <<>>, filters |-> <<>>, ignores |-> <<L_not_a_pyc>>]}

\* The options and the flags the watch loop is explored with.
LoopRules == {[extensions |-> <<E_js>>, filters |-> <<L_star_js>>, ignores |-> <<L_d_dir>>]}

LoopFlags == {[restart |-> TRUE, clear |-> FALSE], [restart |-> FALSE, clear |-> TRUE]}

\* ------------------------------------------------------------------------
\* main(): construction
\* ------------------------------------------------------------------------
default_filters == <<L_star_pyc, L_star_swp, L_dotted_dirs>>

\* The filter main() accumulates: the default ignores first, then the user's
\* extensions, filters and ignores.
main_rules(u) ==
    [filters |-> u.filters,
     ignores |-> default_filters \o u.ignores,
     extensions |-> u.extensions]

Runner_new(restart, clear) == [restart |-> restart, cls |-> clear, process |-> 0]

main_runner_swapped(a) == Runner_new(a.clear, a.restart)

main_runner_negated(a) == Runner_new(~a.restart, a.clear)

main_runner(a) == Runner_new(a.restart, a.clear)

is_excluded(f, paths) == ~check_event(f, paths).ok

LoopInit ==
    /\ runner = main_runner(args)
    /\ alive = {}
    /\ chan = <<>>
    /\ txOpen = TRUE
    /\ pc = "recv"
    /\ e = NoEvent
    /\ nPushed = 0
    /\ trigLog = <<>>
    /\ runLog = <<>>
    /\ attempts = 0
    /\ kills = [sent |-> 0, failed |-> 0]
    /\ outcomes = <<>>
    /\ hist = [late |-> FALSE, rejected |-> FALSE, rejIds |-> {}, inWindow |-> FALSE]
    /\ clock = [timer |-> 0, since |-> 0]
    /\ marks = [windowEnd |-> <<>>, drained |-> <<>>, closedAt |-> "open"]

Init ==
    /\ \E u \in LoopRules : cfg = main_rules(u)
    /\ filterer = GlobsetFilterer_new(cfg.filters, cfg.ignores, cfg.extensions)
    /\ event = <<>>
    /\ verdict = NoVerdict
    /\ args \in LoopFlags
    /\ LoopInit

\* ------------------------------------------------------------------------
\* The watcher thread and the children
\* ------------------------------------------------------------------------
Push ==
    /\ txOpen
    /\ nPushed < MaxEvents
    /\ \E ps \in WatchedPaths :
        /\ chan' = Append(chan, [id |-> nPushed + 1, paths |-> ps])
        /\ hist' = [late |-> hist.late \/ trigLog # <<>> \/ pc \notin {"recv", "sleep"},
                    rejected |-> hist.rejected \/ is_excluded(filterer, ps),
                    rejIds |-> IF is_excluded(filterer, ps)
                               THEN hist.rejIds \cup {nPushed + 1}
                               ELSE hist.rejIds,
                    inWindow |-> hist.inWindow
                                 \/ (pc = "sleep" /\ clock.since > 0
                                        /\ ~is_excluded(filterer, ps))]
    /\ nPushed' = nPushed + 1
    /\ UNCHANGED <<filterVars, args, runner, alive, txOpen, pc, e, trigLog, runLog,
                   attempts, kills, outcomes, clock, marks>>

Disconnect ==
    /\ txOpen
    /\ txOpen' = FALSE
    /\ marks' = [marks EXCEPT !.closedAt = pc]
    /\ UNCHANGED <<filterVars, args, runner, alive, chan, pc, e, nPushed, trigLog,
                   runLog, attempts, kills, outcomes, hist, clock>>

ChildExit ==
    /\ \E c \in alive : alive' = alive \ {c}
    /\ UNCHANGED <<filterVars, args, runner, chan, txOpen, pc, e, nPushed, trigLog,
                   runLog, attempts, kills, outcomes, hist, clock, marks>>

\* ------------------------------------------------------------------------
\* wait()
\* ------------------------------------------------------------------------
\* rx.recv() returns an event: an excluded one is dropped and the loop goes
\* back to recv; any other one is kept as `e` and the sleep starts.
Recv_nofilter ==
    /\ pc = "recv"
    /\ chan # <<>>
    /\ chan' = Tail(chan)
    /\ e' = Head(chan)
    /\ pc' = "sleep"
    /\ clock' = [timer |-> Window, since |-> 0]
    /\ UNCHANGED <<filterVars, args, runner, alive, txOpen, nPushed, trigLog, runLog,
                   attempts, kills, outcomes, hist, marks>>

Recv_cooldown ==
    /\ pc = "recv"
    /\ chan # <<>>
    /\ chan' = Tail(chan)
    /\ IF \/ Head(chan).paths # <<>> /\ is_excluded(filterer, Head(chan).paths)
          \/ marks.drained # <<>> /\ Head(chan).id = marks.drained[Len(marks.drained)] + 1
       THEN UNCHANGED <<pc, e, clock>>
       ELSE /\ e' = Head(chan)
            /\ pc' = "sleep"
            /\ clock' = [timer |-> Window, since |-> 0]
    /\ UNCHANGED <<filterVars, args, runner, alive, txOpen, nPushed, trigLog, runLog,
                   attempts, kills, outcomes, hist, marks>>

Recv ==
    /\ pc = "recv"
    /\ chan # <<>>
    /\ chan' = Tail(chan)
    /\ IF Head(chan).paths # <<>> /\ is_excluded(filterer, Head(chan).paths)
       THEN UNCHANGED <<pc, e, clock>>
       ELSE /\ e' = Head(chan)
            /\ pc' = "sleep"
            /\ clock' = [timer |-> Window, since |-> 0]
    /\ UNCHANGED <<filterVars, args, runner, alive, txOpen, nPushed, trigLog, runLog,
                   attempts, kills, outcomes, hist, marks>>

\* rx.recv() fails: every sender is gone and the channel is empty. wait()
\* returns the error and the expect() of main() panics.
RecvErr_runs ==
    /\ pc = "recv"
    /\ chan = <<>>
    /\ ~txOpen
    /\ pc' = "run"
    /\ UNCHANGED <<filterVars, args, runner, alive, chan, txOpen, e, nPushed, trigLog,
                   runLog, attempts, kills, outcomes, hist, clock, marks>>

RecvErr ==
    /\ pc = "recv"
    /\ chan = <<>>
    /\ ~txOpen
    /\ pc' = "panicked"
    /\ UNCHANGED <<filterVars, args, runner, alive, chan, txOpen, e, nPushed, trigLog,
                   runLog, attempts, kills, outcomes, hist, clock, marks>>

\* Time passes while the main thread sleeps.
Tick ==
    /\ pc = "sleep"
    /\ clock.timer > 0
    /\ clock' = [timer |-> clock.timer - TickMs, since |-> clock.since + TickMs]
    /\ UNCHANGED <<filterVars, args, runner, alive, chan, txOpen, pc, e, nPushed,
                   trigLog, runLog, attempts, kills, outcomes, hist, marks>>

\* thread::sleep(250 ms) returns.
SleepDone_restart ==
    /\ pc = "sleep"
    /\ clock.timer = 0
    /\ IF chan # <<>> /\ clock.since = Window
       THEN /\ chan' = <<>>
            /\ clock' = [clock EXCEPT !.timer = Window]
            /\ UNCHANGED <<pc, marks>>
       ELSE /\ pc' = "drain"
            /\ marks' = [marks EXCEPT !.windowEnd = Append(@, nPushed)]
            /\ UNCHANGED <<chan, clock>>
    /\ UNCHANGED <<filterVars, args, runner, alive, txOpen, e, nPushed, trigLog,
                   runLog, attempts, kills, outcomes, hist>>

SleepDone_nodrain ==
    /\ pc = "sleep"
    /\ clock.timer = 0
    /\ pc' = "run"
    /\ trigLog' = Append(trigLog, e.id)
    /\ marks' = [marks EXCEPT !.windowEnd = Append(@, nPushed),
                              !.drained = Append(@, nPushed)]
    /\ UNCHANGED <<filterVars, args, runner, alive, chan, txOpen, e, nPushed,
                   runLog, attempts, kills, outcomes, hist, clock>>

SleepDone ==
    /\ pc = "sleep"
    /\ clock.timer = 0
    /\ pc' = "drain"
    /\ marks' = [marks EXCEPT !.windowEnd = Append(@, nPushed)]
    /\ UNCHANGED <<filterVars, args, runner, alive, chan, txOpen, e, nPushed, trigLog,
                   runLog, attempts, kills, outcomes, hist, clock>>

\* try_recv() returns Ok(_): the event is dropped and the drain goes on.
DrainOne_break ==
    /\ pc = "drain"
    /\ chan # <<>>
    /\ chan' = Tail(chan)
    /\ trigLog' = Append(trigLog, e.id)
    /\ marks' = [marks EXCEPT !.drained = Append(@, nPushed)]
    /\ pc' = "run"
    /\ UNCHANGED <<filterVars, args, runner, alive, txOpen, e, nPushed, runLog,
                   attempts, kills, outcomes, hist, clock>>

DrainOne_keeps_last ==
    /\ pc = "drain"
    /\ chan # <<>>
    /\ chan' = Tail(chan)
    /\ e' = Head(chan)
    /\ UNCHANGED <<filterVars, args, runner, alive, txOpen, pc, nPushed, trigLog,
                   runLog, attempts, kills, outcomes, hist, clock, marks>>

DrainOne ==
    /\ pc = "drain"
    /\ chan # <<>>
    /\ chan' = Tail(chan)
    /\ UNCHANGED <<filterVars, args, runner, alive, txOpen, pc, e, nPushed, trigLog,
                   runLog, attempts, kills, outcomes, hist, clock, marks>>

\* try_recv() returns Err(_) (empty or disconnected): wait() returns Ok(e)
\* and main() goes on to call run_command.
DrainEnd_norun ==
    /\ pc = "drain"
    /\ chan = <<>>
    /\ trigLog' = Append(trigLog, e.id)
    /\ marks' = [marks EXCEPT !.drained = Append(@, nPushed)]
    /\ pc' = "recv"
    /\ UNCHANGED <<filterVars, args, runner, alive, chan, txOpen, e, nPushed, runLog,
                   attempts, kills, outcomes, hist, clock>>

DrainEnd_err_propagates ==
    /\ pc = "drain"
    /\ chan = <<>>
    /\ IF txOpen
       THEN /\ trigLog' = Append(trigLog, e.id)
            /\ marks' = [marks EXCEPT !.drained = Append(@, nPushed)]
            /\ pc' = "run"
       ELSE /\ pc' = "panicked"
            /\ UNCHANGED <<trigLog, marks>>
    /\ UNCHANGED <<filterVars, args, runner, alive, chan, txOpen, e, nPushed, runLog,
                   attempts, kills, outcomes, hist, clock>>

DrainEnd ==
    /\ pc = "drain"
    /\ chan = <<>>
    /\ trigLog' = Append(trigLog, e.id)
    /\ marks' = [marks EXCEPT !.drained = Append(@, nPushed)]
    /\ pc' = "run"
    /\ UNCHANGED <<filterVars, args, runner, alive, chan, txOpen, e, nPushed, runLog,
                   attempts, kills, outcomes, hist, clock>>

\* ------------------------------------------------------------------------
\* Runner::run_command
\* ------------------------------------------------------------------------
\* What main() does once run_command has returned: the result is not looked
\* at and the loop goes back to wait().
main_after_run_expect(outcome) == IF outcome = "spawn_failed" THEN "panicked" ELSE "recv"

main_after_run(outcome) == "recv"

\* run_command returns to main().
Return(outcome) ==
    /\ outcomes' = Append(outcomes, outcome)
    /\ pc' = main_after_run(outcome)

\* The spawn of the command: it succeeds or fails. A child is tracked only
\* in restart mode; a failed spawn leaves no child tracked.
SpawnStep ==
    /\ attempts' = attempts + 1
    /\ \E ok \in BOOLEAN :
        IF ok
        THEN /\ alive' = alive \cup {attempts + 1}
             /\ runner' = [runner EXCEPT !.process = IF runner.restart THEN attempts + 1 ELSE 0]
             /\ Return("spawned")
        ELSE /\ alive' = alive
             /\ runner' = [runner EXCEPT !.process = 0]
             /\ Return("spawn_failed")

\* run_command is entered. In restart mode with a tracked child that is
\* still alive, a termination request is sent: if that fails the spawn is
\* skipped and the child stays tracked; if it succeeds run_command blocks
\* until the child has exited. Otherwise the command is spawned at once.
run_command_respawn ==
    /\ pc = "run"
    /\ runLog' = Append(runLog, e.id)
    /\ IF runner.restart /\ runner.process \in alive
       THEN \E killed \in BOOLEAN :
                IF killed
                THEN /\ kills' = [kills EXCEPT !.sent = @ + 1]
                     /\ pc' = "terminating"
                     /\ UNCHANGED <<runner, alive, attempts, outcomes>>
                ELSE /\ kills' = [kills EXCEPT !.sent = @ + 1, !.failed = @ + 1]
                     /\ SpawnStep
       ELSE /\ SpawnStep
            /\ UNCHANGED kills
    /\ UNCHANGED <<filterVars, args, chan, txOpen, e, nPushed, trigLog, hist, clock, marks>>

run_command ==
    /\ pc = "run"
    /\ runLog' = Append(runLog, e.id)
    /\ IF runner.restart /\ runner.process \in alive
       THEN \E killed \in BOOLEAN :
                IF killed
                THEN /\ kills' = [kills EXCEPT !.sent = @ + 1]
                     /\ pc' = "terminating"
                     /\ UNCHANGED <<runner, alive, attempts, outcomes>>
                ELSE /\ kills' = [kills EXCEPT !.sent = @ + 1, !.failed = @ + 1]
                     /\ Return("kill_failed")
                     /\ UNCHANGED <<runner, alive, attempts>>
       ELSE /\ SpawnStep
            /\ UNCHANGED kills
    /\ UNCHANGED <<filterVars, args, chan, txOpen, e, nPushed, trigLog, hist, clock, marks>>

\* The blocking wait for the terminated child returns once the child has
\* exited; the command is then spawned.
run_command_resume ==
    /\ pc = "terminating"
    /\ runner.process \notin alive
    /\ SpawnStep
    /\ UNCHANGED <<filterVars, args, chan, txOpen, e, nPushed, trigLog, runLog,
                   kills, hist, clock, marks>>

\* ------------------------------------------------------------------------
\* The watch loop
\* ------------------------------------------------------------------------
Next ==
    \/ Push
    \/ Disconnect
    \/ ChildExit
    \/ Recv
    \/ RecvErr
    \/ Tick
    \/ SleepDone
    \/ DrainOne
    \/ DrainEnd
    \/ run_command
    \/ run_command_resume

Spec == Init /\ [][Next]_vars

\* The main thread is one sequential thread: whenever one of its steps can be
\* taken, one is taken eventually (recv returns once an event is buffered or
\* the channel is closed, the sleep ends, try_recv and run_command return).
MainStep ==
    \/ Recv
    \/ RecvErr
    \/ Tick
    \/ SleepDone
    \/ DrainOne
    \/ DrainEnd
    \/ run_command
    \/ run_command_resume

\* The child that run_command has signalled and is waiting for exits.
KilledChildExits == pc = "terminating" /\ ChildExit

\* The watcher of the progress specification stops pushing after
\* MaxLiveEvents events.
LivePush == nPushed < MaxLiveEvents /\ Push

LiveNext ==
    \/ LivePush
    \/ Disconnect
    \/ ChildExit
    \/ MainStep

LiveSpec == Init /\ [][LiveNext]_vars /\ WF_vars(MainStep) /\ WF_vars(KilledChildExits)

\* ------------------------------------------------------------------------
\* The filter on its own: every rule list and every event within the bounds
\* ------------------------------------------------------------------------
FilterEvents == SeqsUpTo(FilterPaths, MaxPaths)

FilterInit ==
    /\ \/ /\ cfg \in [filters : SeqsUpTo(FilterLines, MaxRules),
                      ignores : SeqsUpTo(IgnoreLines, MaxRules),
                      extensions : ExtLists]
          /\ Len(cfg.filters) + Len(cfg.ignores) <= MaxRules
       \/ \E u \in UserRules : cfg = main_rules(u)
    /\ filterer = GlobsetFilterer_new(cfg.filters, cfg.ignores, cfg.extensions)
    /\ event = <<>>
    /\ verdict = NoVerdict
    /\ args = [restart |-> FALSE, clear |-> FALSE]
    /\ LoopInit

CheckEvent ==
    /\ verdict = NoVerdict
    /\ \E ps \in FilterEvents :
        /\ event' = ps
        /\ verdict' = check_event(filterer, ps)
    /\ UNCHANGED <<cfg, filterer, loopVars>>

FilterNext == CheckEvent

FilterSpec == FilterInit /\ [][FilterNext]_vars

\* ========================================================================
\* Properties of the watch loop and the runner (Spec)
\* ========================================================================
Last(q) == q[Len(q)]

IsPrefix(p, q) == Len(p) <= Len(q) /\ SubSeq(q, 1, Len(p)) = p

Increasing(q) == \A i \in 1..Len(q) : \A j \in 1..Len(q) : i < j => q[i] < q[j]

\* C1: with the restart flag given, at most one spawned child is alive in
\* every reachable state, and a spawn happens only when no earlier child is
\* alive: a tracked child that was alive has been sent a termination request
\* and has exited before the new child is spawned.
C1_RestartNoOverlap ==
    /\ [](args.restart => Cardinality(alive) <= 1)
    /\ [][(args.restart /\ attempts' # attempts) => alive = {}]_vars

C1_Witness ==
    /\ args.restart
    /\ kills.sent >= 1
    /\ kills.failed = 0
    /\ attempts >= 2
    /\ outcomes = <<"spawned", "spawned">>
    /\ alive = {2}

\* C2: when every event pushed so far was accepted and was pushed before the
\* sleep started by the first of them returned, wait() has returned at most
\* one trigger and run_command was called at most once; once the channel is
\* empty again and the loop is back at recv, exactly one of each.
C2_BurstOneTrigger ==
    (nPushed >= 1 /\ ~hist.late /\ ~hist.rejected) =>
        /\ Len(trigLog) <= 1
        /\ Len(runLog) <= 1
        /\ (pc \in {"recv", "panicked"} /\ chan = <<>>) =>
               (Len(trigLog) = 1 /\ Len(runLog) = 1)

C2_Witness ==
    /\ nPushed >= 3
    /\ ~hist.late
    /\ ~hist.rejected
    /\ pc = "recv"
    /\ chan = <<>>
    /\ trigLog = <<1>>
    /\ runLog = <<1>>

\* C3: a failed spawn does not end the watch loop: the loop stops only when
\* the receive fails on a closed, empty channel; right after a run whose
\* spawn failed the loop is back in wait(); and the run that follows a failed
\* spawn attempts a spawn again.
C3_SpawnFailureKeepsLoop ==
    /\ pc = "panicked" => (~txOpen /\ chan = <<>>)
    /\ (outcomes # <<>> /\ Last(outcomes) = "spawn_failed" /\ Len(outcomes) = Len(trigLog))
           => pc \in {"recv", "sleep", "drain", "panicked"}
    /\ \A i \in 1..(Len(outcomes) - 1) :
           outcomes[i] = "spawn_failed" => outcomes[i + 1] \in {"spawned", "spawn_failed"}

C3_Witness ==
    /\ Len(outcomes) >= 2
    /\ outcomes[1] = "spawn_failed"
    /\ outcomes[2] = "spawned"
    /\ pc = "recv"
    /\ txOpen

\* C4: in restart mode, a step of run_command in which the termination
\* request fails spawns nothing, leaves the runner tracking the same child,
\* which stays alive and alone, and returns to the loop; the next
\* run_command that finds that child alive sends a termination request again.
C4_KillFailureSkipsSpawn ==
    /\ [][(kills'.failed # kills.failed) =>
            /\ args.restart
            /\ attempts' = attempts
            /\ runner' = runner
            /\ runner.process \in alive
            /\ alive' = alive
            /\ Cardinality(alive') = 1
            /\ Last(outcomes') = "kill_failed"
            /\ pc' = "recv"]_vars
    /\ [][(pc = "run" /\ pc' # "run" /\ outcomes # <<>> /\ Last(outcomes) = "kill_failed"
              /\ runner.process \in alive) => kills'.sent = kills.sent + 1]_vars

C4_Witness ==
    /\ args.restart
    /\ outcomes = <<"spawned", "kill_failed", "spawned">>
    /\ kills.sent = 2
    /\ kills.failed = 1
    /\ alive = {2}
    /\ runner.process = 2

\* C9: triggers are run one at a time and in the order their events were
\* received: the ids of the triggers increase, run_command is called for
\* them in that order, while the loop is in wait() every trigger returned so
\* far has had its run_command return, and while run_command has not
\* returned nothing is received and no trigger is returned.
C9_OneTriggerAtATime ==
    /\ [](/\ Increasing(trigLog)
          /\ IsPrefix(runLog, trigLog)
          /\ Len(trigLog) - Len(runLog) \in {0, 1}
          /\ pc \in {"recv", "sleep", "drain"} =>
                 (Len(outcomes) = Len(trigLog) /\ runLog = trigLog))
    /\ [][(pc \in {"run", "terminating"}) =>
            (trigLog' = trigLog /\ e' = e /\ IsPrefix(chan, chan'))]_vars

C9_Witness ==
    /\ Len(trigLog) = 2
    /\ runLog = trigLog
    /\ Len(outcomes) = 1
    /\ pc = "terminating"
    /\ chan # <<>>

\* C10: without the restart flag the runner never tracks a child and never
\* sends a termination request (two children of two successive triggers can
\* then be alive together).
C10_NoRestartNoTracking ==
    ~args.restart => (runner.process = 0 /\ kills.sent = 0 /\ pc # "terminating")

C10_Witness ==
    /\ ~args.restart
    /\ Len(runLog) = 2
    /\ outcomes = <<"spawned", "spawned">>
    /\ alive = {1, 2}

\* Events the main thread has taken off the channel so far.
Consumed == nPushed - Len(chan)

InWait == pc \in {"recv", "sleep", "drain"}

\* The first accepted event pushed after the n-th one, 0 if there is none.
FirstAcceptedAfter(n) ==
    LET acc == {i \in (n + 1)..nPushed : i \notin hist.rejIds}
    IN  IF acc = {} THEN 0 ELSE CHOOSE i \in acc : \A j \in acc : i <= j

\* C11: on a closed, empty channel the blocking receive does not block: the
\* failed receive is the only step of the main thread, it stops the loop, and
\* no command is run for it: run_command is only ever called for a returned
\* trigger, and when the loop has stopped every trigger has been run.
C11_ClosedChannelStopsLoop ==
    /\ [](/\ (pc = "recv" /\ chan = <<>> /\ ~txOpen) => ENABLED RecvErr
          /\ pc = "panicked" => (~txOpen /\ chan = <<>> /\ runLog = trigLog
                                   /\ Len(outcomes) = Len(runLog))
          /\ Len(runLog) <= Len(trigLog))
    /\ [][(pc = "recv" /\ chan = <<>> /\ ~txOpen /\ pc' # pc) =>
            (pc' = "panicked" /\ runLog' = runLog /\ trigLog' = trigLog
               /\ attempts' = attempts)]_vars

C11_Witness ==
    /\ pc = "panicked"
    /\ marks.closedAt = "recv"
    /\ Len(trigLog) = 1
    /\ runLog = trigLog
    /\ outcomes = <<"spawned">>

\* C12: receiving a rejected event changes nothing but the channel: no sleep
\* starts, the clock is untouched, the pending event is not replaced; and a
\* rejected event is never the pending event, a trigger, or run.
C12_RejectedEventIsDropped ==
    /\ [][(pc = "recv" /\ chan # <<>> /\ Head(chan).id \in hist.rejIds
             /\ chan' = Tail(chan)) =>
            (pc' = "recv" /\ e' = e /\ clock' = clock /\ marks' = marks
               /\ trigLog' = trigLog /\ runLog' = runLog)]_vars
    /\ [](/\ \A i \in 1..Len(trigLog) : trigLog[i] \notin hist.rejIds
          /\ \A i \in 1..Len(runLog) : runLog[i] \notin hist.rejIds
          /\ e.id \notin hist.rejIds)

C12_Witness ==
    /\ hist.rejIds = {1, 2}
    /\ Consumed = 2
    /\ pc = "recv"
    /\ e = NoEvent
    /\ clock = [timer |-> 0, since |-> 0]
    /\ trigLog = <<>>

\* C13: the k-th trigger is the first accepted event pushed after the events
\* the (k-1)-th call of wait() consumed: it is accepted, and every event
\* between the end of the previous drain and it was rejected.
C13_TriggerIsFirstAccepted ==
    /\ Len(marks.drained) = Len(trigLog)
    /\ \A k \in 1..Len(trigLog) :
        LET lo == IF k = 1 THEN 0 ELSE marks.drained[k - 1]
        IN  /\ trigLog[k] = FirstAcceptedAfter(lo)
            /\ trigLog[k] <= marks.drained[k]
    /\ pc \in {"sleep", "drain"} =>
        e.id = FirstAcceptedAfter(IF trigLog = <<>> THEN 0
                                  ELSE marks.drained[Len(trigLog)])

C13_Witness ==
    /\ Len(trigLog) = 2
    /\ trigLog[1] = 1
    /\ marks.drained[1] = 2
    /\ 2 \notin hist.rejIds
    /\ 3 \in hist.rejIds
    /\ trigLog[2] = 4

\* C14: the sleep lasts one window from the receipt of the first accepted
\* event: a push during the sleep leaves the clock alone, the sleep ends
\* exactly Window ms after that receipt, and never later.
C14_WindowIsFixed ==
    /\ [](/\ clock.since <= Window
          /\ clock.timer + clock.since \in {0, Window}
          /\ pc = "drain" => clock.since = Window)
    /\ [][(pc = "sleep" /\ nPushed' # nPushed) => (clock' = clock /\ pc' = pc)]_vars
    /\ [][(pc = "sleep" /\ pc' # "sleep") =>
            (pc' = "drain" /\ clock.since = Window /\ clock'.since = Window)]_vars

C14_Witness ==
    /\ pc = "drain"
    /\ hist.inWindow
    /\ clock.since = Window
    /\ trigLog = <<>>
    /\ e.id = 1
    /\ Len(chan) >= 2

\* C15: when wait() has returned its k-th trigger, every event pushed by the
\* end of the k-th sleep is off the channel, accepted or not, and none of
\* them other than the trigger is ever a trigger; the drain ends without
\* blocking when the channel is empty.
C15_DrainDropsBuffered ==
    /\ \A k \in 1..Len(trigLog) :
        /\ k <= Len(marks.windowEnd)
        /\ Consumed >= marks.windowEnd[k]
        /\ \A j \in 1..Len(trigLog) :
               ~(trigLog[k] < trigLog[j] /\ trigLog[j] <= marks.windowEnd[k])
    /\ (pc = "drain" /\ chan = <<>>) => ENABLED DrainEnd

C15_Witness ==
    /\ trigLog = <<1>>
    /\ marks.windowEnd = <<3>>
    /\ hist.rejIds = {2}
    /\ Consumed = 3
    /\ pc = "recv"
    /\ runLog = <<1>>

\* C16: the first accepted event pushed after the k-th drain ended is not
\* merged into the k-th trigger: once it is off the channel it is the pending
\* event of the next call of wait() and then the (k+1)-th trigger, for which
\* run_command is called.
C16_LateEventStartsNewCycle ==
    \A k \in 1..Len(marks.drained) :
        LET x == FirstAcceptedAfter(marks.drained[k])
        IN  (x # 0 /\ x <= Consumed) =>
                \/ (Len(trigLog) = k /\ e.id = x /\ pc \in {"sleep", "drain"})
                \/ /\ Len(trigLog) > k
                   /\ trigLog[k + 1] = x
                   /\ Len(runLog) > k => runLog[k + 1] = x
                   /\ (InWait \/ pc = "panicked") => Len(runLog) > k

C16_Witness ==
    /\ Len(trigLog) = 2
    /\ marks.drained[1] = 2
    /\ trigLog = <<1, 3>>
    /\ runLog = trigLog
    /\ Len(outcomes) = 2
    /\ pc = "recv"

\* C18: a disconnect during the sleep or the drain does not lose the pending
\* event: the drain ends on the empty channel, wait() returns the event, the
\* command is run for it, and only the next receive stops the loop.
C18_DisconnectKeepsPendingTrigger ==
    /\ [](/\ (pc = "drain" /\ chan = <<>>) => ENABLED DrainEnd
          /\ pc = "panicked" =>
                \/ e = NoEvent
                \/ /\ trigLog # <<>>
                   /\ Last(trigLog) = e.id
                   /\ runLog = trigLog
                   /\ Len(outcomes) = Len(runLog)
                   /\ Cardinality({i \in 1..Len(runLog) : runLog[i] = e.id}) = 1)
    /\ [][(pc \in {"sleep", "drain"} /\ ~txOpen /\ pc' # pc) =>
            (pc' \in {"drain", "run"}
               /\ (pc' = "run" => trigLog' = Append(trigLog, e.id)))]_vars

C18_Witness ==
    /\ marks.closedAt \in {"sleep", "drain"}
    /\ pc = "panicked"
    /\ Len(trigLog) = 1
    /\ trigLog = <<e.id>>
    /\ runLog = trigLog
    /\ Len(outcomes) = 1

\* ========================================================================
\* Properties of the filter (FilterSpec)
\* ========================================================================
Checked == verdict # NoVerdict

IgnoreHit(p) == is_ignore(matched(filterer.ignores, p.path, IsDir(p)))

\* The path is matched by no line of the filter-rule list, negated or not.
NoFilterLineMatches(p) == matched(filterer.filters, p.path, IsDir(p)) = "None"

\* C5: an event with a path that the ignore rules match is not relevant,
\* whatever the filter rules and the extensions are.
C5_IgnoredPathRejectsEvent ==
    (Checked /\ \E i \in 1..Len(event) : IgnoreHit(event[i])) => ~verdict.ok

C5_Witness ==
    /\ Checked
    /\ num_ignores(filterer.filters) > 0
    /\ cfg.extensions # <<>>
    /\ verdict.log = <<"dir_exempt", "ignored">>
    /\ IgnoreHit(event[2])
    /\ ~verdict.ok

\* C6: with a non-empty filter-rule list an event with a path that no filter
\* rule matches is rejected; with an empty filter-rule list no path is
\* rejected by the filter step.
C6_FilterListDecides ==
    Checked =>
        /\ (cfg.filters # <<>> /\ \E i \in 1..Len(event) : NoFilterLineMatches(event[i]))
               => ~verdict.ok
        /\ cfg.filters = <<>> => \A i \in 1..Len(verdict.log) : verdict.log[i] # "filtered"

\* C7: with a non-empty extension list, a directory and a file without an
\* extension are not rejected by the extension check (they are relevant when
\* alone in the event and neither ignored nor filtered out), and a file with
\* an extension that is not exactly one of the list is rejected.
C7_ExtensionCheck ==
    (Checked /\ cfg.extensions # <<>>) =>
        \A i \in 1..Len(verdict.log) :
            LET p == event[i]
                exempt == IsDir(p) \/ ~HasExtension(p.path)
            IN  /\ exempt => verdict.log[i] # "ext_rejected"
                /\ (exempt /\ Len(event) = 1 /\ verdict.log[i] \notin {"ignored", "filtered"})
                       => verdict.ok
                /\ (~exempt /\ \A k \in 1..Len(cfg.extensions) :
                                   cfg.extensions[k] # extension(p.path))
                       => (verdict.log[i] \in Rejections /\ ~verdict.ok)

C7_Witness ==
    /\ Checked
    /\ cfg.extensions = <<E_js>>
    /\ event = <<P(S_a, "file"), P(S_a_JS, "file")>>
    /\ verdict.log = <<"noext_exempt", "ext_rejected">>

\* C8: an event is relevant exactly when none of its paths is rejected by
\* the ignore, filter or extension check, also when an earlier path was
\* exempted from the extension check; an event without a path is relevant.
C8_AllPathsMustPass ==
    Checked =>
        /\ verdict.ok <=> \A i \in 1..Len(event) : check_path(filterer, event[i]) \notin Rejections
        /\ event = <<>> => verdict.ok

C8_Witness ==
    /\ Checked
    /\ Len(event) = 2
    /\ verdict.log = <<"dir_exempt", "ext_rejected">>
    /\ ~verdict.ok

\* The rule written on `line` matches the path: its glob matches, and a
\* rule with a trailing `/` matches directories only.
RuleHits(line, p) ==
    /\ add_line(line) # <<>>
    /\ GlobMatchesPath(add_line(line)[1], p.path)
    /\ (line[Len(line)] = "/") => IsDir(p)

Negated(line) == line # <<>> /\ Head(line) = "!"

\* The last rule of the list that matches the path, 0 if none does.
LastHit(lines, p) ==
    LET hits == {i \in 1..Len(lines) : RuleHits(lines[i], p)}
    IN  IF hits = {} THEN 0 ELSE CHOOSE i \in hits : \A j \in hits : j <= i

DecidedByLastRule(lines, gi, p) ==
    LET n == LastHit(lines, p)
    IN  /\ matched(gi, p.path, IsDir(p)) = "Ignore" <=> (n # 0 /\ ~Negated(lines[n]))
        /\ matched(gi, p.path, IsDir(p)) = "Whitelist" <=> (n # 0 /\ Negated(lines[n]))

\* C17: in the ignore list and in the filter list the last rule that matches
\* a path decides: the path is matched as ignored exactly when that rule is
\* not negated; the built matcher keeps the rules in the order of the list;
\* and in a filter built by main() the default ignores come first.
C17_LastMatchingRuleDecides ==
    /\ \A i \in 1..Len(event) :
        /\ DecidedByLastRule(cfg.ignores, filterer.ignores, event[i])
        /\ DecidedByLastRule(cfg.filters, filterer.filters, event[i])
    /\ Len(filterer.ignores) = Len(cfg.ignores)
    /\ \A i \in 1..Len(cfg.ignores) : <<filterer.ignores[i]>> = add_line(cfg.ignores[i])
    /\ \A u \in UserRules :
           cfg = main_rules(u) =>
               /\ SubSeq(cfg.ignores, 1, Len(default_filters)) = default_filters
               /\ SubSeq(cfg.ignores, Len(default_filters) + 1, Len(cfg.ignores)) = u.ignores
    /\ (Checked /\ Len(cfg.ignores) > Len(default_filters)
          /\ cfg.ignores[Len(cfg.ignores)] = L_not_a_pyc /\ cfg.filters = <<>>
          /\ cfg.extensions = <<>> /\ event = <<P(S_a_pyc, "none")>>) => verdict.ok

C17_Witness ==
    /\ Checked
    /\ cfg.ignores = default_filters \o <<L_not_a_pyc>>
    /\ event = <<P(S_a_pyc, "none")>>
    /\ LastHit(cfg.ignores, event[1]) = 4
    /\ RuleHits(cfg.ignores[1], event[1])
    /\ verdict.ok

PlainFilterLines == Cardinality({i \in 1..Len(cfg.filters) : ~Negated(cfg.filters[i])})

Ran(id) == \E i \in 1..Len(runLog) : runLog[i] = id

\* The event wait() holds has been accepted and no run_command call has
\* been made for it yet.
Owed == e # NoEvent /\ ~Ran(e.id)

\* C20: every accepted event that the blocking recv has received is followed
\* by a call of run_command for it, given that the watcher stops pushing and
\* the previous run_command returns; and wait() returns a trigger only from
\* a try_recv that found the channel empty, so a channel that is never empty
\* never lets the drain loop end.  An accepted event stays the one wait()
\* holds until run_command has been called for it.
C20_AcceptedEventLeadsToRun ==
    /\ (pc = "sleep") ~> ~Owed
    /\ [][Owed => (e' = e)]_vars
    /\ [](pc = "sleep" => Owed)
    /\ [][(trigLog' # trigLog) => (pc = "drain" /\ chan = <<>>)]_vars
    /\ [][(pc = "drain" /\ chan # <<>> /\ pc' # pc) => FALSE]_vars

C20_Witness ==
    /\ pc = "recv"
    /\ runLog = <<1, 3>>
    /\ hist.rejIds = {2}
    /\ Len(outcomes) = 2
    /\ kills.sent = 1
    /\ nPushed = 3
    /\ ~Owed
    /\ chan = <<>>

====
